---- MODULE Spec2Model ----
(***************************************************************************)
(* Model of app/main.py: a FastAPI application with two routes.            *)
(*   POST /generate  builds an OpenAI client from the OPENAI_API_KEY       *)
(*                   environment variable, sends one chat completion and   *)
(*                   returns the first choice's content as "reply".        *)
(*   GET  /health    returns {"status": "ok"}.                             *)
(* Both handlers are coroutines run by one event loop.  The completion     *)
(* call in generate_response is a plain (blocking) call, not an await.     *)
(***************************************************************************)
EXTENDS Integers, Sequences, FiniteSets, TLC

\* ---------------------------------------------------------------- bounds
NumRequests == 2
MaxChoices == 1

Requests == 1..NumRequests

\* ------------------------------------------------------------ value sets
NoKey == "<unset>"          \* os.getenv returns None
Unread == "<unread>"        \* os.getenv not evaluated by this request
Keys == {"sk-1"}
Null == "<null>"            \* JSON null / Python None
Messages == {"a", "b"}
Contents == {"a", Null}

\* The JSON body of a request, as far as the Prompt model looks at it.
MissingBody == [present |-> FALSE, isText |-> FALSE, value |-> Null]
NumberBody == [present |-> TRUE, isText |-> FALSE, value |-> "123"]
TextBody(m) == [present |-> TRUE, isText |-> TRUE, value |-> m]
Bodies == {MissingBody, NumberBody} \cup {TextBody(m) : m \in Messages}

\* What the completion API can hand back to client.chat.completions.create:
\* an exception (error # "none") or a response with a list of choices.
ChoiceLists == UNION {[1..n -> Contents] : n \in 0..MaxChoices}
Failures == {"network", "api", "auth"}
Pending == [error |-> "pending", choices |-> <<>>]
Outcomes == {[error |-> "none", choices |-> cs] : cs \in ChoiceLists}
              \cup {[error |-> e, choices |-> <<>>] : e \in Failures}

VARIABLES
  env,      \* value of OPENAI_API_KEY in the process environment
  route,    \* route[r]: "none" before arrival, "generate" or "health"
  body,     \* body[r]: JSON body of request r
  pc,       \* pc[r]: "idle", "arrived", "calling", "done"
  apiKey,   \* apiKey[r]: what os.getenv returned in r's handler
  client,   \* client[r]: r's handler holds a constructed OpenAI client
  calls,    \* completion calls issued so far, in order
  resp,     \* resp[r]: the responses sent for request r
  loop      \* request whose handler occupies the event loop, 0 when free

vars == <<env, route, body, pc, apiKey, client, calls, resp, loop>>

\* ------------------------------------------------------- pure operators
\* class Prompt(BaseModel): message: str
ValidPromptCoerces(b) == b.present
ValidPrompt(b) == b.present /\ b.isText

\* os.getenv("OPENAI_API_KEY"), evaluated in the handler
GetenvCached == IF \E q \in Requests : apiKey[q] # Unread
                THEN apiKey[CHOOSE q \in Requests : apiKey[q] # Unread]
                ELSE env
Getenv == env

\* messages=[{"role": "user", "content": prompt.message}]
ChatMessagesWithSystem(m) == << [role |-> "system", content |-> ""],
                                [role |-> "user", content |-> m] >>
ChatMessages(m) == << [role |-> "user", content |-> m] >>

ModelName == "gpt-3.5-turbo"

\* The responses FastAPI can send.
ReplyResponse(c) == [status |-> 200, field |-> "reply", value |-> c]
ValidationError == [status |-> 422, field |-> "detail", value |-> "validation"]
ServerErrorAsNullReply == ReplyResponse(Null)
ServerError == [status |-> 500, field |-> "none", value |-> "Internal Server Error"]

HealthResponseNeedsKey == [status |-> IF env = NoKey THEN 503 ELSE 200,
                           field |-> "status",
                           value |-> IF env = NoKey THEN "down" ELSE "ok"]
HealthResponse == [status |-> 200, field |-> "status", value |-> "ok"]

\* return {"reply": response.choices[0].message.content}
\* An exception of the call, or the IndexError of choices[0] on an empty
\* list, is unhandled: FastAPI answers 500.
HandlerResultSwallows(o) ==
  IF o.error # "none" \/ Len(o.choices) = 0 THEN ReplyResponse(Null)
  ELSE ReplyResponse(o.choices[1])
HandlerResultRejectsNull(o) ==
  IF o.error # "none" \/ Len(o.choices) = 0 THEN ServerError
  ELSE IF o.choices[1] = Null THEN ServerError
  ELSE ReplyResponse(o.choices[1])
HandlerResult(o) ==
  IF o.error # "none" THEN ServerError
  ELSE IF Len(o.choices) = 0 THEN ServerError
  ELSE ReplyResponse(o.choices[1])

\* The calls issued by r's handler, and the one it is blocked in.
CallsBy(r) == {i \in 1..Len(calls) : calls[i].by = r}
OwnCall(r) == CHOOSE i \in CallsBy(r) : TRUE

\* The call whose result line 23 reads: the handler's local `response`.
SharedResponse(r) == 1
ResponseOf(r) == OwnCall(r)

\* ------------------------------------------------------------------ Init
Init ==
  /\ env \in Keys \cup {NoKey}
  /\ route = [r \in Requests |-> "none"]
  /\ body = [r \in Requests |-> MissingBody]
  /\ pc = [r \in Requests |-> "idle"]
  /\ apiKey = [r \in Requests |-> Unread]
  /\ client = [r \in Requests |-> FALSE]
  /\ calls = <<>>
  /\ resp = [r \in Requests |-> <<>>]
  /\ loop = 0

\* --------------------------------------------------------------- actions
\* A client sends a request; requests are numbered in order of arrival.
Arrive(r, rt, b) ==
  /\ pc[r] = "idle"
  /\ \A q \in Requests : q < r => pc[q] # "idle"
  /\ rt = "health" => b = MissingBody
  /\ route' = [route EXCEPT ![r] = rt]
  /\ body' = [body EXCEPT ![r] = b]
  /\ pc' = [pc EXCEPT ![r] = "arrived"]
  /\ UNCHANGED <<env, apiKey, client, calls, resp, loop>>

\* The environment variable is set, changed or removed.  os.environ belongs
\* to the process: nothing changes it while a handler holds the only thread.
SetEnv(k) ==
  /\ loop = 0
  /\ k # env
  /\ env' = k
  /\ UNCHANGED <<route, body, pc, apiKey, client, calls, resp, loop>>

\* GET /health
health_check(r) ==
  /\ loop = 0
  /\ pc[r] = "arrived"
  /\ route[r] = "health"
  /\ resp' = [resp EXCEPT ![r] = Append(@, HealthResponse)]
  /\ pc' = [pc EXCEPT ![r] = "done"]
  /\ UNCHANGED <<env, route, body, apiKey, client, calls, loop>>

\* POST /generate, body rejected by the Prompt model: the handler is not run.
RejectPrompt(r) ==
  /\ loop = 0
  /\ pc[r] = "arrived"
  /\ route[r] = "generate"
  /\ ~ValidPrompt(body[r])
  /\ resp' = [resp EXCEPT ![r] = Append(@, ValidationError)]
  /\ pc' = [pc EXCEPT ![r] = "done"]
  /\ UNCHANGED <<env, route, body, apiKey, client, calls, loop>>

\* POST /generate, lines 17-22: read the key, build the client, issue the
\* call.  The call blocks the handler without yielding the event loop.
GenerateCall(r) ==
  /\ loop = 0
  /\ pc[r] = "arrived"
  /\ route[r] = "generate"
  /\ ValidPrompt(body[r])
  /\ apiKey' = [apiKey EXCEPT ![r] = Getenv]
  /\ client' = [client EXCEPT ![r] = TRUE]
  /\ calls' = Append(calls, [by |-> r,
                             api_key |-> apiKey'[r],
                             model |-> ModelName,
                             messages |-> ChatMessages(body[r].value),
                             result |-> Pending])
  /\ pc' = [pc EXCEPT ![r] = "calling"]
  /\ loop' = r
  /\ UNCHANGED <<env, route, body, resp>>

\* POST /generate, line 17 with no key in the environment: the client
\* library may refuse to build a client without a key (openai >= 1.0 raises
\* OpenAIError in OpenAI.__init__); the exception is unhandled.
GenerateNoClient(r) ==
  /\ loop = 0
  /\ pc[r] = "arrived"
  /\ route[r] = "generate"
  /\ ValidPrompt(body[r])
  /\ Getenv = NoKey
  /\ apiKey' = [apiKey EXCEPT ![r] = Getenv]
  /\ resp' = [resp EXCEPT ![r] = Append(@, ServerError)]
  /\ pc' = [pc EXCEPT ![r] = "done"]
  /\ UNCHANGED <<env, route, body, client, calls, loop>>

\* The completion call returns or raises; the handler finishes (line 23).
\* A call sent without a key can only be refused by the API.
UpstreamReturnHangs(r, o) ==
  /\ pc[r] = "calling"
  /\ loop = r
  /\ calls[OwnCall(r)].result = Pending
  /\ calls[OwnCall(r)].api_key = NoKey => o.error = "auth"
  /\ calls' = [calls EXCEPT ![OwnCall(r)].result = o]
  /\ IF o.error = "none"
     THEN /\ resp' = [resp EXCEPT ![r] = Append(@, HandlerResult(o))]
          /\ pc' = [pc EXCEPT ![r] = "done"]
          /\ loop' = 0
     ELSE UNCHANGED <<resp, pc, loop>>
  /\ UNCHANGED <<env, route, body, apiKey, client>>
UpstreamReturn(r, o) ==
  /\ pc[r] = "calling"
  /\ loop = r
  /\ calls[OwnCall(r)].result = Pending
  /\ calls[OwnCall(r)].api_key = NoKey => o.error = "auth"
  /\ calls' = [calls EXCEPT ![OwnCall(r)].result = o]
  /\ resp' = [resp EXCEPT ![r] = Append(@, HandlerResult(calls'[ResponseOf(r)].result))]
  /\ pc' = [pc EXCEPT ![r] = "done"]
  /\ loop' = 0
  /\ UNCHANGED <<env, route, body, apiKey, client>>

Next ==
  \/ \E r \in Requests, rt \in {"generate", "health"}, b \in Bodies : Arrive(r, rt, b)
  \/ \E k \in Keys \cup {NoKey} : SetEnv(k)
  \/ \E r \in Requests : health_check(r)
  \/ \E r \in Requests : RejectPrompt(r)
  \/ \E r \in Requests : GenerateCall(r)
  \/ \E r \in Requests : GenerateNoClient(r)
  \/ \E r \in Requests, o \in Outcomes : UpstreamReturn(r, o)

Spec == Init /\ [][Next]_vars

\* The code's scheduling: the event loop runs every ready handler, and each
\* issued completion call returns or raises.
FairSpec ==
  /\ Spec
  /\ WF_vars(\E r \in Requests : health_check(r))
  /\ WF_vars(\E r \in Requests : RejectPrompt(r))
  /\ WF_vars(\E r \in Requests : GenerateCall(r) \/ GenerateNoClient(r))
  /\ WF_vars(\E r \in Requests, o \in Outcomes : UpstreamReturn(r, o))

TypeOK ==
  /\ env \in Keys \cup {NoKey}
  /\ loop \in Requests \cup {0}
  /\ \A r \in Requests : pc[r] \in {"idle", "arrived", "calling", "done"}

\* ------------------------------------------------- vocabulary of the claims
Done(r) == pc[r] = "done"
TextMessage(r) == route[r] = "generate" /\ body[r].present /\ body[r].isText
BadMessage(r) == route[r] = "generate" /\ (~body[r].present \/ ~body[r].isText)
OneUserMessage(i, r) ==
  /\ Len(calls[i].messages) = 1
  /\ calls[i].messages[1].role = "user"
  /\ calls[i].messages[1].content = body[r].value
\* The outcome of r's own handler run: its call's result, or that none was issued.
OwnOutcome(r) ==
  IF CallsBy(r) = {} THEN [error |-> "nocall", choices |-> <<>>]
  ELSE calls[CHOOSE i \in CallsBy(r) : TRUE].result
Succeeded(i) == calls[i].result.error = "none"
Failed(i) == calls[i].result.error \in Failures
Is5xxWithoutReply(s) == s.status \in 500..599 /\ s.field # "reply"
Serve(q) == health_check(q) \/ RejectPrompt(q) \/ GenerateCall(q) \/ GenerateNoClient(q)

\* ------------------------------------------------------------------- C1
\* C1 as stated: every answered /generate request with a text message m has
\* issued exactly one completion call, carrying exactly one message with role
\* "user" and content m, and when the call succeeded the response is 200 with
\* reply equal to the first choice's content.
C1_ExactlyOneCall ==
  \A r \in Requests : (TextMessage(r) /\ Done(r)) =>
    /\ Cardinality(CallsBy(r)) = 1
    /\ \A i \in CallsBy(r) :
         /\ OneUserMessage(i, r)
         /\ Succeeded(i) =>
              /\ Len(resp[r]) = 1
              /\ resp[r][1].status = 200
              /\ resp[r][1].field = "reply"
              /\ Len(calls[i].result.choices) > 0 =>
                   resp[r][1].value = calls[i].result.choices[1]

\* C1 amended: a request never issues more than one completion call (no
\* retry); an answered /generate request with a text message m whose handler
\* read a set credential has issued exactly one; every call carries exactly
\* one message with role "user" and content m, for the fixed model; and when
\* the call succeeded with at least one choice the response is 200 with reply
\* equal to the first choice's content.
C1_AtMostOneCall ==
  \A r \in Requests :
    /\ Cardinality(CallsBy(r)) <= 1
    /\ (TextMessage(r) /\ Done(r) /\ apiKey[r] \in Keys) => Cardinality(CallsBy(r)) = 1
    /\ \A i \in CallsBy(r) :
         /\ TextMessage(r)
         /\ OneUserMessage(i, r)
         /\ calls[i].model = "gpt-3.5-turbo"
         /\ (Done(r) /\ Succeeded(i) /\ Len(calls[i].result.choices) > 0) =>
              resp[r] = << [status |-> 200, field |-> "reply",
                            value |-> calls[i].result.choices[1]] >>

C1_Witness ==
  \E r \in Requests : \E i \in CallsBy(r) :
    /\ Done(r) /\ body[r] = TextBody("b")
    /\ Succeeded(i) /\ calls[i].result.choices = << "a" >>
    /\ resp[r] = << [status |-> 200, field |-> "reply", value |-> "a"] >>

\* ------------------------------------------------------------------- C2
\* C2: a /generate request whose body lacks `message`, or carries a non-text
\* one, never reads the credential, builds no client and issues no completion
\* call, and its answer is the validation error (422).
C2_InvalidBodyRejected ==
  \A r \in Requests : BadMessage(r) =>
    /\ apiKey[r] = Unread
    /\ ~client[r]
    /\ CallsBy(r) = {}
    /\ pc[r] # "calling"
    /\ Done(r) => (Len(resp[r]) = 1 /\ resp[r][1].status \in 400..499)

C2_Witness ==
  \E r, q \in Requests :
    /\ Done(r) /\ route[r] = "generate" /\ body[r] = MissingBody
    /\ Done(q) /\ route[q] = "generate" /\ body[q] = NumberBody
    /\ resp[r][1].status = 422 /\ resp[q][1].status = 422

\* ------------------------------------------------------------------- C3
\* C3: while the completion call of one request is outstanding, any other
\* request that has arrived can be served (no handler blocks the others for
\* the duration of its upstream call).
C3_OthersServedDuringCall ==
  \A r, q \in Requests :
    (pc[r] = "calling" /\ q # r /\ pc[q] = "arrived") => ENABLED Serve(q)

\* ------------------------------------------------------------------- C4
\* C4: when the completion call of a request failed (network, API or
\* authentication error) the request's response is a 5xx without a reply,
\* never a 200 and never a 4xx.
C4_FailureIs5xx ==
  \A r \in Requests : \A i \in CallsBy(r) : Failed(i) =>
    /\ Done(r)
    /\ Len(resp[r]) = 1
    /\ Is5xxWithoutReply(resp[r][1])

C4_Witness ==
  \E r, q \in Requests : \E i \in CallsBy(r), j \in CallsBy(q) :
    /\ calls[i].result.error = "network" /\ resp[r][1].status = 500
    /\ calls[j].result.error = "api" /\ resp[q][1].status = 500

\* ------------------------------------------------------------------- C5
\* C5: a /health request never reads the credential, builds no client and
\* issues no call, and its answer is always 200 {"status": "ok"}, whatever
\* the credential and whatever happened to other requests.
C5_HealthAlwaysOk ==
  \A r \in Requests : route[r] = "health" =>
    /\ apiKey[r] = Unread
    /\ ~client[r]
    /\ CallsBy(r) = {}
    /\ pc[r] # "calling"
    /\ Done(r) => resp[r] = << [status |-> 200, field |-> "status", value |-> "ok"] >>

C5_Witness ==
  \E r, q \in Requests :
    /\ r < q
    /\ Done(r) /\ route[r] = "generate" /\ resp[r][1].status = 500
    /\ Done(q) /\ route[q] = "health" /\ resp[q][1].value = "ok"
    /\ env = NoKey

\* ------------------------------------------------------------------- C6
\* C6 as stated: a valid /generate request handled with the credential unset
\* still issues its completion call, that call fails, and the answer is 500.
C6_AbsentKeyReachesCall ==
  \A r \in Requests : (TextMessage(r) /\ Done(r) /\ apiKey[r] = NoKey) =>
    /\ Cardinality(CallsBy(r)) = 1
    /\ \A i \in CallsBy(r) : Failed(i)
    /\ Len(resp[r]) = 1
    /\ Is5xxWithoutReply(resp[r][1])

\* C6 amended: an unset credential is seen only inside the handler of a
\* valid /generate request (never by validation or /health); that request
\* fails either when the client is built or when its call is refused, and is
\* answered 500 without a reply; the handler then releases the event loop, so
\* later requests are served.
C6_AbsentKeySurfacesInHandler ==
  \A r \in Requests :
    /\ apiKey[r] = NoKey => TextMessage(r)
    /\ (apiKey[r] = NoKey /\ Done(r)) =>
         /\ Len(resp[r]) = 1
         /\ Is5xxWithoutReply(resp[r][1])
         /\ CallsBy(r) = {} \/ \A i \in CallsBy(r) : Failed(i)
    /\ Done(r) => loop # r

C6_Witness ==
  \E r, q \in Requests :
    /\ r < q
    /\ Done(r) /\ apiKey[r] = NoKey /\ CallsBy(r) = {} /\ resp[r][1].status = 500
    /\ Done(q) /\ apiKey[q] = NoKey /\ CallsBy(q) # {} /\ resp[q][1].status = 500

\* ------------------------------------------------------------------- C7
\* C7: every handler run reads the credential from the environment as it is
\* at that moment, and the call it issues carries that value: a value read
\* by an earlier request is never reused.
C7_FreshCredential ==
  [][\A r \in Requests : (apiKey[r] = Unread /\ apiKey'[r] # Unread) =>
        /\ apiKey'[r] = env
        /\ \A i \in 1..Len(calls') : calls'[i].by = r => calls'[i].api_key = env]_vars

C7_Witness ==
  \E i, j \in 1..Len(calls) :
    /\ i < j
    /\ calls[i].api_key = NoKey
    /\ calls[j].api_key = "sk-1"
    /\ env = "sk-1"

\* ------------------------------------------------------------------- C8
\* C8 as stated: whenever the call succeeded without content (first choice
\* with null content, or no choice at all) the answer is 200 with reply null.
C8_NoContentIs200 ==
  \A r \in Requests : \A i \in CallsBy(r) :
    (Done(r) /\ Succeeded(i)
       /\ (Len(calls[i].result.choices) = 0 \/ calls[i].result.choices[1] = Null)) =>
      resp[r] = << [status |-> 200, field |-> "reply", value |-> Null] >>

\* C8 amended: when the call succeeded and its first choice has null content
\* the answer is 200 with reply null; when it succeeded with an empty list of
\* choices the answer is a 500 without a reply.
C8_NullContentIs200 ==
  \A r \in Requests : \A i \in CallsBy(r) : (Done(r) /\ Succeeded(i)) =>
    /\ (Len(calls[i].result.choices) > 0 /\ calls[i].result.choices[1] = Null) =>
         resp[r] = << [status |-> 200, field |-> "reply", value |-> Null] >>
    /\ Len(calls[i].result.choices) = 0 =>
         (Len(resp[r]) = 1 /\ Is5xxWithoutReply(resp[r][1]))

C8_Witness ==
  \E r, q \in Requests : \E i \in CallsBy(r), j \in CallsBy(q) :
    /\ Done(r) /\ Succeeded(i) /\ calls[i].result.choices = << Null >>
    /\ resp[r][1].status = 200 /\ resp[r][1].value = Null
    /\ Done(q) /\ Succeeded(j) /\ calls[j].result.choices = << >>
    /\ resp[q][1].status = 500

\* ------------------------------------------------------------------- C9
\* C9: the response of a request is a function of its own route and body and
\* of the outcome of its own handler run (its own call's result, or that no
\* call was issued): two requests that agree on these get the same response,
\* a reply is always the first choice of the request's own call, and a call
\* carries the message of the request that issued it.
C9_RequestsIndependent ==
  /\ \A r, q \in Requests :
       (Done(r) /\ Done(q) /\ route[r] = route[q] /\ body[r] = body[q]
          /\ OwnOutcome(r) = OwnOutcome(q)) => resp[r] = resp[q]
  /\ \A r \in Requests : (Done(r) /\ resp[r][1].field = "reply") =>
       /\ OwnOutcome(r).error = "none"
       /\ Len(OwnOutcome(r).choices) > 0
       /\ resp[r][1].value = OwnOutcome(r).choices[1]
  /\ \A i \in 1..Len(calls) : calls[i].messages[1].content = body[calls[i].by].value

C9_Witness ==
  \E r, q \in Requests :
    /\ r # q /\ Done(r) /\ Done(q)
    /\ body[r] = TextBody("a") /\ body[q] = TextBody("b")
    /\ CallsBy(r) # {} /\ CallsBy(q) # {}
    /\ resp[r][1].status = 500
    /\ resp[q][1] = [status |-> 200, field |-> "reply", value |-> "a"]

\* What holds of every request at all times (the safety half of C10).
C10_Safety ==
  \A r \in Requests :
    /\ Len(resp[r]) <= 1
    /\ Done(r) <=> Len(resp[r]) = 1
    /\ (Done(r) /\ CallsBy(r) # {}) =>
         \/ resp[r][1].status = 200 /\ resp[r][1].field = "reply"
         \/ Is5xxWithoutReply(resp[r][1])
    /\ (Done(r) /\ BadMessage(r)) => resp[r][1].status \in 400..499
    /\ pc[r] = "calling" <=> (CallsBy(r) # {} /\ OwnOutcome(r) = Pending)

\* ------------------------------------------------------------------ C10
\* C10: under the code's scheduling every request that arrived is eventually
\* answered, and at all times a request has at most one response, exactly
\* one once it is finished: 200 or 500 when its call was issued, 422 when its
\* body was rejected; a call stays outstanding until the handler is answered.
C10_EveryRequestAnsweredOnce ==
  /\ [] C10_Safety
  /\ \A r \in Requests : (pc[r] # "idle") ~> Done(r)

C10_Witness ==
  \E r, q \in Requests :
    /\ Done(r) /\ CallsBy(r) # {} /\ Len(resp[r]) = 1 /\ resp[r][1].status = 200
    /\ Done(q) /\ BadMessage(q) /\ Len(resp[q]) = 1 /\ resp[q][1].status = 422

====
